---- MODULE Spec2Model ----
(***************************************************************************)
(* A model of src/src/unix.rs: the unix thread scheduling control of the   *)
(* thread-priority crate.                                                  *)
(*                                                                         *)
(* The program keeps no state of its own.  The state it reads and writes   *)
(* is the kernel's scheduling record of every thread of the process, so    *)
(* that record is the model's state (sched).  The other variables hold the *)
(* most recent call of the library: its name, its caller, its arguments,   *)
(* the scheduling call it handed to the OS and what it returned.           *)
(***************************************************************************)
EXTENDS Integers, FiniteSets, Sequences, TLC

VARIABLES
    sched,      \* thread -> the kernel's scheduling record of the thread
    op,         \* name of the library call that has just returned ("idle": none)
    caller,     \* the thread that made the call
    native,     \* the ThreadId argument of the call
    priority,   \* the ThreadPriority argument of the call
    policy,     \* the ThreadSchedulePolicy argument of the call
    params,     \* the ScheduleParams built or received by the call
    oscall,     \* the scheduling call the library call issued to the OS
    ret,        \* what the library call returned
    before      \* sched as it was when the call was made

vars == <<sched, op, caller, native, priority, policy, params, oscall, ret, before>>

(***************************************************************************)
(* Bounds of the model.                                                    *)
(***************************************************************************)
\* runtime, deadline and period of a Deadline priority range over 1..MaxNanos
MaxNanos == 2
\* ThreadPriorityOsValue is a u32; the codec is explored for 0..MaxOsValue
MaxOsValue == 300

\* sched_priority is a libc::c_int; the decoder is explored for
\* -MaxSchedPriority..MaxSchedPriority
MaxSchedPriority == 300

\* ThreadPriorityValue is a u8
MaxU8 == 255

(***************************************************************************)
(* The threads of the process.  "main" is the thread group leader: its     *)
(* kernel thread id is the process id.                                     *)
(***************************************************************************)
Threads == {"main", "worker"}

\* Kernel thread ids (pid_t), as gettid() reports them; getpid() is Tid["main"].
Tid == [t \in Threads |-> IF t = "main" THEN 1 ELSE 2]

\* pthread_t handles, as pthread_self() reports them.  A pthread_t and a pid_t
\* are different namespaces: nothing keeps the number of one thread's handle
\* from being another thread's kernel id, and here main's handle is worker's
\* kernel id, while worker's handle is nobody's kernel id.
Handle == [t \in Threads |-> Tid[t] + 1]

getpid == Tid["main"]

\* The ThreadId values a caller passes: 0 (the calling thread, for a pid_t),
\* every kernel thread id and every pthread_t handle.
ThreadIds == {0} \cup {Tid[t] : t \in Threads} \cup {Handle[t] : t \in Threads}

thread_native_id(t) == Handle[t]

\* native as libc::pid_t: a u64 narrowed to an i32.  Every id of the model is
\* below 2^31, where the narrowing keeps the value.
AsPidT(n) == n

(***************************************************************************)
(* ThreadSchedulePolicy and its POSIX encoding.                            *)
(***************************************************************************)
NormalVariants == {"Idle", "Batch", "Other", "Normal"}
RealtimeVariants == {"Fifo", "RoundRobin", "Deadline"}

Normal(v) == <<"Normal", v>>
Realtime(v) == <<"Realtime", v>>
NoPolicy == <<"None", "None">>

Policies == {Normal(v) : v \in NormalVariants} \cup {Realtime(v) : v \in RealtimeVariants}
DeadlinePolicy == Realtime("Deadline")

(***************************************************************************)
(* ThreadPriority.                                                         *)
(***************************************************************************)
FlagOptions == {"None", "ResetOnFork", "Reclaim", "DeadlineOverrun"}

Prio(tag, value, runtime, deadline, period, flags) ==
    [tag |-> tag, value |-> value, runtime |-> runtime, deadline |-> deadline,
     period |-> period, flags |-> flags]

Min == Prio("Min", 0, 0, 0, 0, "None")
Max == Prio("Max", 0, 0, 0, 0, "None")
Crossplatform(p) == Prio("Crossplatform", p, 0, 0, 0, "None")
Os(p) == Prio("Os", p, 0, 0, 0, "None")
Deadline(r, d, p, f) == Prio("Deadline", 0, r, d, p, f)
NoPriority == Prio("None", 0, 0, 0, 0, "None")

\* The Deadline priorities of the model: runtime <= deadline <= period.
DeadlinePriorities ==
    {Deadline(t[1], t[2], t[3], f) :
        t \in {x \in (1..MaxNanos) \X (1..MaxNanos) \X (1..MaxNanos) :
                  x[1] <= x[2] /\ x[2] <= x[3]},
        f \in FlagOptions}

\* The priority values the set operations are called with: both ends of the
\* real-time range, a value inside it, the value below it and the first above it.
PriorityValues == {0, 1, 50, 99, 100}

Priorities ==
    {Min, Max} \cup {Crossplatform(p) : p \in PriorityValues}
               \cup {Os(p) : p \in PriorityValues} \cup DeadlinePriorities

\* The priorities the codec is explored with: every u8, every u32 to MaxOsValue.
CodecPriorities ==
    {Min, Max} \cup {Crossplatform(p) : p \in 0..MaxU8}
               \cup {Os(p) : p \in 0..MaxOsValue} \cup DeadlinePriorities

(***************************************************************************)
(* Results.  One record shape for every Result<_, Error> of the module.    *)
(***************************************************************************)
Result(kind, value, pol, prio, msg) ==
    [kind |-> kind, value |-> value, policy |-> pol, priority |-> prio, msg |-> msg]

NoResult == Result("None", 0, NoPolicy, NoPriority, "")
OkUnit == Result("Ok", 0, NoPolicy, NoPriority, "")
OkInt(v) == Result("Ok", v, NoPolicy, NoPriority, "")
OkPolicy(p) == Result("Ok", 0, p, NoPriority, "")
OkPolicyParam(p, v) == Result("Ok", v, p, NoPriority, "")
OkPriority(p) == Result("Ok", 0, NoPolicy, p, "")
ErrPriority(msg) == Result("Priority", 0, NoPolicy, NoPriority, msg)
ErrOS(e) == Result("OS", e, NoPolicy, NoPriority, "")
ErrFfi(msg) == Result("Ffi", 0, NoPolicy, NoPriority, msg)

(***************************************************************************)
(* The POSIX codec.                                                        *)
(***************************************************************************)
RealtimeThreadSchedulePolicy_to_posix(v) ==
    CASE v = "Fifo" -> 1
      [] v = "RoundRobin" -> 2
      [] v = "Deadline" -> 6

NormalThreadSchedulePolicy_to_posix(v) ==
    CASE v = "Idle" -> 5
      [] v = "Batch" -> 3
      [] v \in {"Other", "Normal"} -> 0

ThreadSchedulePolicy_to_posix(pol) ==
    IF pol[1] = "Normal"
    THEN NormalThreadSchedulePolicy_to_posix(pol[2])
    ELSE RealtimeThreadSchedulePolicy_to_posix(pol[2])

\* A decoder with the encodings of Batch and Idle exchanged.
from_posix_BatchIdleSwapped(n) ==
    CASE n = 0 -> OkPolicy(Normal("Normal"))
      [] n = 5 -> OkPolicy(Normal("Batch"))
      [] n = 3 -> OkPolicy(Normal("Idle"))
      [] n = 1 -> OkPolicy(Realtime("Fifo"))
      [] n = 2 -> OkPolicy(Realtime("RoundRobin"))
      [] n = 6 -> OkPolicy(Realtime("Deadline"))
      [] OTHER -> ErrFfi("Can't parse schedule policy from posix")

ThreadSchedulePolicy_from_posix(n) ==
    CASE n = 0 -> OkPolicy(Normal("Normal"))
      [] n = 3 -> OkPolicy(Normal("Batch"))
      [] n = 5 -> OkPolicy(Normal("Idle"))
      [] n = 1 -> OkPolicy(Realtime("Fifo"))
      [] n = 2 -> OkPolicy(Realtime("RoundRobin"))
      [] n = 6 -> OkPolicy(Realtime("Deadline"))
      [] OTHER -> ErrFfi("Can't parse schedule policy from posix")

\* The value arms with the upper end of the real-time range off by one.
ValueToPosix_UpTo100(p, pol) ==
    IF pol = DeadlinePolicy
    THEN ErrPriority("Deadline scheduling must use deadline priority.")
    ELSE IF pol[1] = "Realtime" /\ (p = 0 \/ p > 100)
    THEN ErrPriority("The value is out of range [0; 99]")
    ELSE IF pol[1] = "Normal" /\ p # 0
    THEN ErrPriority("The value can be only 0 for normal scheduling policy")
    ELSE OkInt(p)

\* The arms of ThreadPriority::to_posix for Crossplatform(p) and Os(p); the two
\* arms are the same code.
ValueToPosix(p, pol) ==
    IF pol = DeadlinePolicy
    THEN ErrPriority("Deadline scheduling must use deadline priority.")
    ELSE IF pol[1] = "Realtime" /\ (p = 0 \/ p > 99)
    THEN ErrPriority("The value is out of range [0; 99]")
    ELSE IF pol[1] = "Normal" /\ p # 0
    THEN ErrPriority("The value can be only 0 for normal scheduling policy")
    ELSE OkInt(p)

\* The Min and Max arms without the arm that refuses the deadline policy.
ExtremeToPosix_NoDeadlineArm(rt, pol) ==
    IF pol[1] = "Realtime" THEN OkInt(rt) ELSE OkInt(0)

\* The arms of ThreadPriority::to_posix for Min (rt = 1) and Max (rt = 99).
ExtremeToPosix(rt, pol) ==
    IF pol = DeadlinePolicy
    THEN ErrPriority("Deadline scheduling must use deadline priority.")
    ELSE IF pol[1] = "Realtime" THEN OkInt(rt) ELSE OkInt(0)

\* A codec that resolves a Deadline priority under the deadline policy to 0.
to_posix_DeadlineSentinel(prio, pol) ==
    CASE prio.tag = "Min" -> ExtremeToPosix(1, pol)
      [] prio.tag = "Crossplatform" -> ValueToPosix(prio.value, pol)
      [] prio.tag = "Os" -> ValueToPosix(prio.value, pol)
      [] prio.tag = "Max" -> ExtremeToPosix(99, pol)
      [] prio.tag = "Deadline" ->
            IF pol = DeadlinePolicy THEN OkInt(0)
            ELSE ErrPriority("Deadline is non-POSIX and cannot be converted.")

ThreadPriority_to_posix(prio, pol) ==
    CASE prio.tag = "Min" -> ExtremeToPosix(1, pol)
      [] prio.tag = "Crossplatform" -> ValueToPosix(prio.value, pol)
      [] prio.tag = "Os" -> ValueToPosix(prio.value, pol)
      [] prio.tag = "Max" -> ExtremeToPosix(99, pol)
      [] prio.tag = "Deadline" ->
            ErrPriority("Deadline is non-POSIX and cannot be converted.")

ScheduleParams(p) == [sched_priority |-> p]

\* A conversion that loses the priority.
into_posix_Zeroed(par) == [sched_priority |-> 0]

\* ScheduleParams::into_posix: the libc::sched_param carrying the priority (the
\* fields musl adds are zeros and no call reads them)
into_posix(par) == [sched_priority |-> par.sched_priority]

\* ScheduleParams::from_posix
ScheduleParams_from_posix(sp) == ScheduleParams(sp.sched_priority)

\* ThreadPriority::from_posix: sched_priority as u8 keeps the low eight bits.
ThreadPriority_from_posix(par) == Crossplatform(par.sched_priority % (MaxU8 + 1))

\* impl TryFrom<u8> for ThreadPriority: the checked way to a Crossplatform
\* value; its error is a &'static str.
ThreadPriority_try_from(value) ==
    IF 0 <= value /\ value <= 100
    THEN OkPriority(Crossplatform(value))
    ELSE Result("Str", 0, NoPolicy, NoPriority,
                "The thread priority value must be in range of [0; 100].")

(***************************************************************************)
(* The OS: the kernel's scheduling record of a thread, and the scheduling  *)
(* calls the module issues.  Whether the kernel grants a request (the      *)
(* caller's privilege, the kernel's own checks) is not the module's to     *)
(* decide: every call is modelled with both outcomes.                      *)
(***************************************************************************)
KernelRec(pol, prio, runtime, deadline, period, flags) ==
    [policy |-> pol, priority |-> prio, runtime |-> runtime, deadline |-> deadline,
     period |-> period, flags |-> flags]

\* struct SchedAttr; Default::default() is the record of zeros.
SchedAttr(size, pol, flags, prio, runtime, deadline, period) ==
    [size |-> size, sched_policy |-> pol, sched_flags |-> flags, sched_nice |-> 0,
     sched_priority |-> prio, sched_runtime |-> runtime, sched_deadline |-> deadline,
     sched_period |-> period, sched_util_min |-> 0, sched_util_max |-> 0]

SchedAttrDefault == SchedAttr(0, 0, 0, 0, 0, 0, 0)

\* std::mem::size_of::<SchedAttr>(): 2 * u32, u64, i32, u32, 3 * u64, 2 * u32
SchedAttrSize == 56

OsCall(name, id, pol, prio, attr, flags, result) ==
    [name |-> name, id |-> id, policy |-> pol, sched_priority |-> prio,
     attr |-> attr, flags |-> flags, result |-> result]

NoCall == OsCall("none", 0, 0, 0, SchedAttrDefault, 0, 0)

ThreadsOfHandle(h) == {t \in Threads : Handle[t] = h}

\* The thread a pid_t addresses for caller c: 0 is the caller itself.
ThreadsOfPid(c, pid) == IF pid = 0 THEN {c} ELSE {t \in Threads : Tid[t] = pid}

\* libc::pthread_setschedparam(h, pol, &param): 0 and the thread rescheduled, or
\* an errno (ESRCH = 3: no such thread; EPERM = 1: refused), nothing changed.
pthread_setschedparam(s, h, pol, prio, granted) ==
    IF ThreadsOfHandle(h) = {} THEN [sched |-> s, result |-> 3]
    ELSE IF ~granted THEN [sched |-> s, result |-> 1]
    ELSE [sched |-> [t \in Threads |->
                        IF Handle[t] = h THEN KernelRec(pol, prio, 0, 0, 0, 0) ELSE s[t]],
          result |-> 0]

\* libc::syscall(SYS_sched_setattr, pid, &attr, flags): 0 and the thread given
\* the attributes of the record, or -1, nothing changed.
sched_setattr(s, c, pid, attr, flags, granted) ==
    IF ThreadsOfPid(c, pid) = {} \/ ~granted THEN [sched |-> s, result |-> -1]
    ELSE [sched |-> [t \in Threads |->
                        IF t \in ThreadsOfPid(c, pid)
                        THEN KernelRec(attr.sched_policy, attr.sched_priority,
                                       attr.sched_runtime, attr.sched_deadline,
                                       attr.sched_period, attr.sched_flags)
                        ELSE s[t]],
          result |-> 0]

\* libc::pthread_getschedparam(h, &mut policy, &mut param)
pthread_getschedparam(s, h) ==
    IF ThreadsOfHandle(h) = {}
    THEN [result |-> 3, policy |-> 0, sched_priority |-> 0]
    ELSE LET t == CHOOSE x \in ThreadsOfHandle(h) : TRUE
         IN [result |-> 0, policy |-> s[t].policy, sched_priority |-> s[t].priority]

\* libc::sched_getscheduler(pid): the policy of the thread whose kernel id is pid
sched_getscheduler(s, c, pid) ==
    IF ThreadsOfPid(c, pid) = {} THEN -1
    ELSE s[CHOOSE x \in ThreadsOfPid(c, pid) : TRUE].policy

\* libc::syscall(SYS_sched_getattr, pid, &mut attr, size, 0), as the test
\* set_deadline_policy reads a thread back
sched_getattr(s, c, pid) ==
    LET k == s[CHOOSE x \in ThreadsOfPid(c, pid) : TRUE]
    IN SchedAttr(SchedAttrSize, k.policy, k.flags, k.priority,
                 k.runtime, k.deadline, k.period)

\* DeadlineFlags as i32, and the None arm of the match on the Option
FlagsAsI32(f) ==
    CASE f = "None" -> 0
      [] f = "ResetOnFork" -> 1
      [] f = "Reclaim" -> 2
      [] f = "DeadlineOverrun" -> 4

(***************************************************************************)
(* The scheduler gateway and the facade.  Each operator gives the effect   *)
(* of one call made by thread c on the kernel state s: the new kernel      *)
(* state, the OS call issued and the value returned.                       *)
(***************************************************************************)
Effect(s, call, r, par) == [sched |-> s, oscall |-> call, ret |-> r, params |-> par]

\* The attribute record with deadline and runtime exchanged.
DeadlineAttr_Swapped(pol, prio) ==
    SchedAttr(SchedAttrSize, ThreadSchedulePolicy_to_posix(pol), 0, 0,
              prio.deadline, prio.runtime, prio.period)

\* The attribute record of the deadline branch.
DeadlineAttr(pol, prio) ==
    SchedAttr(SchedAttrSize, ThreadSchedulePolicy_to_posix(pol), 0, 0,
              prio.runtime, prio.deadline, prio.period)

\* A gateway whose deadline branch looks at the priority only after the call.
set_thread_schedule_policy_CheckAfter(s, c, nat, pol, par, prio, granted) ==
    IF pol = DeadlinePolicy
    THEN LET tid == AsPidT(nat)
             attr == DeadlineAttr(pol, prio)
             fl == FlagsAsI32(prio.flags)
             k == sched_setattr(s, c, tid, attr, fl, granted)
             call == OsCall("sched_setattr", tid, 0, 0, attr, fl, k.result)
         IN IF prio.tag # "Deadline"
            THEN Effect(k.sched, call,
                        ErrPriority("Deadline policy given without deadline priority."),
                        par)
            ELSE Effect(k.sched, call,
                        IF k.result = 0 THEN OkUnit ELSE ErrOS(k.result), par)
    ELSE LET num == ThreadSchedulePolicy_to_posix(pol)
             sp == into_posix(par)
             k == pthread_setschedparam(s, nat, num, sp.sched_priority, granted)
         IN Effect(k.sched,
                   OsCall("pthread_setschedparam", nat, num, sp.sched_priority,
                          SchedAttrDefault, 0, k.result),
                   IF k.result = 0 THEN OkUnit ELSE ErrOS(k.result), par)

set_thread_schedule_policy(s, c, nat, pol, par, prio, granted) ==
    IF pol = DeadlinePolicy
    THEN IF prio.tag # "Deadline"
         THEN Effect(s, NoCall,
                     ErrPriority("Deadline policy given without deadline priority."), par)
         ELSE LET tid == AsPidT(nat)
                  attr == DeadlineAttr(pol, prio)
                  fl == FlagsAsI32(prio.flags)
                  k == sched_setattr(s, c, tid, attr, fl, granted)
              IN Effect(k.sched, OsCall("sched_setattr", tid, 0, 0, attr, fl, k.result),
                        IF k.result = 0 THEN OkUnit ELSE ErrOS(k.result), par)
    ELSE LET num == ThreadSchedulePolicy_to_posix(pol)
             sp == into_posix(par)
             k == pthread_setschedparam(s, nat, num, sp.sched_priority, granted)
         IN Effect(k.sched,
                   OsCall("pthread_setschedparam", nat, num, sp.sched_priority,
                          SchedAttrDefault, 0, k.result),
                   IF k.result = 0 THEN OkUnit ELSE ErrOS(k.result), par)

set_thread_priority_and_policy(s, c, nat, prio, pol, granted) ==
    LET resolved == IF pol = DeadlinePolicy THEN OkInt(0)
                    ELSE ThreadPriority_to_posix(prio, pol)
    IN IF resolved.kind # "Ok"
       THEN Effect(s, NoCall, resolved, ScheduleParams(0))
       ELSE set_thread_schedule_policy(s, c, nat, pol, ScheduleParams(resolved.value),
                                       prio, granted)

\* A set-priority-only that keeps the policy the calling thread has.
set_current_thread_priority_KeepsPolicy(s, c, prio, granted) ==
    set_thread_priority_and_policy(s, c, thread_native_id(c), prio,
                                   ThreadSchedulePolicy_from_posix(s[c].policy).policy,
                                   granted)

set_current_thread_priority(s, c, prio, granted) ==
    set_thread_priority_and_policy(s, c, thread_native_id(c), prio,
                                   Normal("Normal"), granted)

thread_schedule_policy(s, c) ==
    LET n == sched_getscheduler(s, c, getpid)
    IN Effect(s, OsCall("sched_getscheduler", getpid, 0, 0, SchedAttrDefault, 0, n),
              ThreadSchedulePolicy_from_posix(n), ScheduleParams(0))

thread_schedule_policy_param(s, nat) ==
    LET g == pthread_getschedparam(s, nat)
        pol == ThreadSchedulePolicy_from_posix(g.policy)
    IN Effect(s,
              OsCall("pthread_getschedparam", nat, g.policy, g.sched_priority,
                     SchedAttrDefault, 0, g.result),
              IF g.result # 0 THEN ErrOS(g.result)
              ELSE IF pol.kind # "Ok" THEN pol
              ELSE OkPolicyParam(pol.policy, ScheduleParams_from_posix(g).sched_priority),
              ScheduleParams_from_posix(g))

thread_priority(s, c) ==
    LET e == thread_schedule_policy_param(s, thread_native_id(c))
    IN IF e.ret.kind # "Ok" THEN e
       ELSE Effect(e.sched, e.oscall,
                   OkPriority(ThreadPriority_from_posix(ScheduleParams(e.ret.value))),
                   e.params)

(***************************************************************************)
(* The state machine: one action per public operation.                     *)
(***************************************************************************)
\* A thread starts under the standard time-sharing policy, priority 0.
InitSched == [t \in Threads |-> KernelRec(0, 0, 0, 0, 0, 0)]

Idle(s) ==
    /\ sched = s
    /\ op = "idle"
    /\ caller = "main"
    /\ native = 0
    /\ priority = NoPriority
    /\ policy = NoPolicy
    /\ params = ScheduleParams(0)
    /\ oscall = NoCall
    /\ ret = NoResult
    /\ before = s

Init == Idle(InitSched)

\* The call name by thread c with arguments nat, prio, pol returns with effect e.
Returns(name, c, nat, prio, pol, e) ==
    /\ op' = name
    /\ caller' = c
    /\ native' = nat
    /\ priority' = prio
    /\ policy' = pol
    /\ sched' = e.sched
    /\ oscall' = e.oscall
    /\ ret' = e.ret
    /\ params' = e.params
    /\ before' = sched

SetThreadPriorityAndPolicy ==
    /\ op = "idle"
    /\ \E c \in Threads, nat \in ThreadIds, prio \in Priorities, pol \in Policies,
          granted \in BOOLEAN :
           Returns("set_thread_priority_and_policy", c, nat, prio, pol,
                   set_thread_priority_and_policy(sched, c, nat, prio, pol, granted))

SetCurrentThreadPriority ==
    /\ op = "idle"
    /\ \E c \in Threads, prio \in Priorities, granted \in BOOLEAN :
           Returns("set_current_thread_priority", c, thread_native_id(c), prio,
                   Normal("Normal"), set_current_thread_priority(sched, c, prio, granted))

ThreadSchedulePolicy ==
    /\ op = "idle"
    /\ \E c \in Threads :
           Returns("thread_schedule_policy", c, 0, NoPriority, NoPolicy,
                   thread_schedule_policy(sched, c))

ThreadSchedulePolicyParam ==
    /\ op = "idle"
    /\ \E c \in Threads, nat \in ThreadIds :
           Returns("thread_schedule_policy_param", c, nat, NoPriority, NoPolicy,
                   thread_schedule_policy_param(sched, nat))

ThreadPriority ==
    /\ op = "idle"
    /\ \E c \in Threads :
           Returns("thread_priority", c, thread_native_id(c), NoPriority, NoPolicy,
                   thread_priority(sched, c))

ToPosix ==
    /\ op = "idle"
    /\ \E c \in Threads, prio \in Priorities, pol \in Policies :
           Returns("to_posix", c, 0, prio, pol,
                   Effect(sched, NoCall, ThreadPriority_to_posix(prio, pol),
                          ScheduleParams(0)))

\* The caller takes the result; nothing of the call outlives it but the
\* kernel's state.
Return ==
    /\ op # "idle"
    /\ sched' = sched
    /\ op' = "idle"
    /\ caller' = "main"
    /\ native' = 0
    /\ priority' = NoPriority
    /\ policy' = NoPolicy
    /\ params' = ScheduleParams(0)
    /\ oscall' = NoCall
    /\ ret' = NoResult
    /\ before' = sched

Next ==
    \/ SetThreadPriorityAndPolicy
    \/ SetCurrentThreadPriority
    \/ ThreadSchedulePolicy
    \/ ThreadSchedulePolicyParam
    \/ ThreadPriority
    \/ ToPosix
    \/ Return

Spec == Init /\ [][Next]_vars

(***************************************************************************)
(* The codec on its own: every input of the pure conversions, each applied *)
(* once.                                                                   *)
(***************************************************************************)
\* The inputs: a priority and a policy to encode ("input"), or a parameter
\* block to decode ("input_params").
CodecInit ==
    /\ sched = InitSched
    /\ caller = "main"
    /\ native = 0
    /\ oscall = NoCall
    /\ ret = NoResult
    /\ before = InitSched
    /\ \/ /\ op = "input"
          /\ priority \in CodecPriorities
          /\ policy \in Policies
          /\ params = ScheduleParams(0)
       \/ /\ op = "input_params"
          /\ priority = NoPriority
          /\ policy = NoPolicy
          /\ params \in {ScheduleParams(v) : v \in -MaxSchedPriority..MaxSchedPriority}

CodecToPosix ==
    /\ op = "input"
    /\ op' = "to_posix"
    /\ ret' = ThreadPriority_to_posix(priority, policy)
    /\ UNCHANGED <<sched, caller, native, priority, policy, params, oscall, before>>

\* The policy encoded, then decoded; the encoding is kept in params.
CodecPolicyRoundTrip ==
    /\ op = "input"
    /\ op' = "policy_round_trip"
    /\ params' = ScheduleParams(ThreadSchedulePolicy_to_posix(policy))
    /\ ret' = ThreadSchedulePolicy_from_posix(ThreadSchedulePolicy_to_posix(policy))
    /\ UNCHANGED <<sched, caller, native, priority, policy, oscall, before>>

\* ThreadPriority::from_posix applied to the parameter block.
CodecFromPosix ==
    /\ op = "input_params"
    /\ op' = "from_posix"
    /\ ret' = OkPriority(ThreadPriority_from_posix(params))
    /\ UNCHANGED <<sched, caller, native, priority, policy, params, oscall, before>>

\* ThreadPriority::try_from applied to the sched_priority values that are a u8.
CodecTryFrom ==
    /\ op = "input_params"
    /\ params.sched_priority \in 0..MaxU8
    /\ op' = "try_from"
    /\ ret' = ThreadPriority_try_from(params.sched_priority)
    /\ UNCHANGED <<sched, caller, native, priority, policy, params, oscall, before>>

CodecNext ==
    \/ CodecToPosix
    \/ CodecPolicyRoundTrip
    \/ CodecFromPosix
    \/ CodecTryFrom

SpecCodec == CodecInit /\ [][CodecNext]_vars

(***************************************************************************)
(* The claims.                                                             *)
(***************************************************************************)
SetOps == {"set_thread_priority_and_policy", "set_current_thread_priority"}
ValueTags == {"Crossplatform", "Os"}
IsRealtimeNonDeadline(pol) == pol \in {Realtime("Fifo"), Realtime("RoundRobin")}

\* What decoding the encoding of a policy gives: Other and Normal share 0,
\* which decodes to Normal.
ReadBackPolicy(pol) == IF pol = Normal("Other") THEN Normal("Normal") ELSE pol

\* C1: for every non-deadline policy and every non-Deadline priority, to_posix
\* follows the resolution table: under Realtime(Fifo) and Realtime(RoundRobin)
\* Min gives 1, Max gives 99 and Crossplatform(p)/Os(p) succeeds iff
\* 1 <= p <= 99; under every Normal variant Min and Max give 0 and
\* Crossplatform(p)/Os(p) succeeds iff p = 0; a success on Crossplatform(p) or
\* Os(p) returns p, a failure is a priority error.
C1_ToPosixTable ==
    (op = "to_posix" /\ policy # DeadlinePolicy /\ priority.tag # "Deadline") =>
        LET rt == IsRealtimeNonDeadline(policy)
            p == priority.value
        IN /\ priority.tag = "Min" => ret = OkInt(IF rt THEN 1 ELSE 0)
           /\ priority.tag = "Max" => ret = OkInt(IF rt THEN 99 ELSE 0)
           /\ priority.tag \in ValueTags =>
                /\ ret.kind = "Ok" <=> (IF rt THEN 1 <= p /\ p <= 99 ELSE p = 0)
                /\ ret.kind = "Ok" => ret = OkInt(p)
                /\ ret.kind # "Ok" => ret.kind = "Priority"

\* C1 witness: the top of the real-time range has been resolved, and the value
\* above it refused.
C1_Witness ==
    /\ op = "to_posix"
    /\ policy = Realtime("RoundRobin")
    /\ \/ priority = Os(99) /\ ret = OkInt(99)
       \/ priority = Crossplatform(100) /\ ret.kind = "Priority"

\* C2 (as stated): decoding the encoding of every policy variant gives back
\* exactly that variant.
C2_RoundTripExact ==
    op = "policy_round_trip" => ret = OkPolicy(policy)

\* C2 (amended): decoding the encoding of a policy variant gives back that
\* variant for every variant but Normal(Other), whose encoding 0 is the one of
\* Normal(Normal) and decodes to Normal(Normal); the decoded variant always
\* has the encoding of the original.
C2_RoundTrip ==
    op = "policy_round_trip" =>
        /\ ret.kind = "Ok"
        /\ policy # Normal("Other") => ret = OkPolicy(policy)
        /\ policy = Normal("Other") => ret = OkPolicy(Normal("Normal"))
        /\ ThreadSchedulePolicy_to_posix(ret.policy) = params.sched_priority

\* C2 witness: Batch has gone through its encoding 3 and come back.
C2_Witness ==
    /\ op = "policy_round_trip"
    /\ policy = Normal("Batch")
    /\ params.sched_priority = 3
    /\ ret = OkPolicy(Normal("Batch"))

\* The pairs of the resolution table that are refused.
InvalidPair(prio, pol) ==
    \/ pol = DeadlinePolicy /\ prio.tag # "Deadline"
    \/ pol # DeadlinePolicy /\ prio.tag = "Deadline"
    \/ IsRealtimeNonDeadline(pol) /\ prio.tag \in ValueTags
         /\ ~(1 <= prio.value /\ prio.value <= 99)
    \/ pol[1] = "Normal" /\ prio.tag \in ValueTags /\ prio.value # 0

\* C3: a set operation returns a priority error exactly for the pairs the
\* resolution table refuses, and when it does it has issued no scheduling call
\* and no thread's scheduling record has changed.
C3_ValidationBeforeOsCall ==
    op \in SetOps =>
        /\ InvalidPair(priority, policy) <=> ret.kind = "Priority"
        /\ ret.kind = "Priority" => oscall = NoCall /\ sched = before

\* C3 witness: Realtime(Fifo) with Crossplatform(0) has been refused for a
\* thread that an earlier call had moved off the default policy.
C3_Witness ==
    /\ op = "set_thread_priority_and_policy"
    /\ policy = Realtime("Fifo")
    /\ priority = Crossplatform(0)
    /\ ret.kind = "Priority"
    /\ oscall = NoCall
    /\ \E t \in Threads : Handle[t] = native /\ sched[t].policy # 0

\* A Deadline priority with another policy, or another priority with the
\* deadline policy.
Mismatch(prio, pol) == (prio.tag = "Deadline") # (pol = DeadlinePolicy)

\* C4: for every pair of a Deadline priority with a non-deadline policy, and of
\* a non-Deadline priority with the deadline policy, to_posix fails and
\* set_thread_priority_and_policy returns an error, whatever the ThreadId.
C4_MismatchIsError ==
    Mismatch(priority, policy) =>
        /\ op = "to_posix" => ret.kind = "Priority"
        /\ op = "set_thread_priority_and_policy" => ret.kind = "Priority"

\* C4 witness: both directions of the mismatch have been refused by the set
\* operation, one of them for the ThreadId 0.
C4_Witness ==
    /\ op = "set_thread_priority_and_policy"
    /\ ret.kind = "Priority"
    /\ \/ policy = DeadlinePolicy /\ priority = Max /\ native = 0
       \/ policy = Normal("Idle") /\ priority.tag = "Deadline"

\* The threads a successful set operation has rescheduled: the owner of the
\* handle on the generic path, the owner of the kernel id on the deadline path.
Addressed ==
    IF policy = DeadlinePolicy THEN ThreadsOfPid(caller, AsPidT(native))
    ELSE ThreadsOfHandle(native)

\* C5: right after set_thread_priority_and_policy(t, priority, policy) has
\* returned Ok for a non-deadline policy, thread_schedule_policy_param(t) gives
\* that policy (Normal(Other) as Normal(Normal)) with the sched_priority the
\* priority resolved to, and thread_priority() called by thread t gives
\* Crossplatform of that value; and a thread's scheduling record changes only
\* in a set operation that returns Ok and addresses that thread, so nothing
\* but a set on t comes between the write and the read.
C5_ReadAfterWrite ==
    /\ (op = "set_thread_priority_and_policy" /\ ret.kind = "Ok"
          /\ policy # DeadlinePolicy) =>
            LET v == ThreadPriority_to_posix(priority, policy).value
            IN /\ Addressed # {}
               /\ thread_schedule_policy_param(sched, native).ret
                     = OkPolicyParam(ReadBackPolicy(policy), v)
               /\ \A t \in Addressed :
                     thread_priority(sched, t).ret = OkPriority(Crossplatform(v))
    /\ \A t \in Threads :
          sched[t] # before[t] => op \in SetOps /\ ret.kind = "Ok" /\ t \in Addressed
    /\ (op = "thread_schedule_policy_param" /\ ret.kind = "Ok") =>
          \E t \in ThreadsOfHandle(native) :
              /\ ThreadSchedulePolicy_to_posix(ret.policy) = sched[t].policy
              /\ ret.value = sched[t].priority
    /\ (op = "thread_priority" /\ ret.kind = "Ok") =>
          ret.priority = Crossplatform(sched[caller].priority)

\* C5 witness: scenario B, Realtime(Fifo) with Crossplatform(50) has been set
\* and reads back as Realtime(Fifo), 50.
C5_Witness ==
    /\ op = "set_thread_priority_and_policy"
    /\ policy = Realtime("Fifo")
    /\ priority = Crossplatform(50)
    /\ ret.kind = "Ok"
    /\ thread_schedule_policy_param(sched, native).ret
          = OkPolicyParam(Realtime("Fifo"), 50)

\* C6: after set_thread_priority_and_policy(id, Deadline(runtime, deadline,
\* period, flags), Realtime(Deadline)) has returned Ok, the call issued was
\* sched_setattr and not pthread_setschedparam, and the thread whose kernel id
\* is id (the caller for 0) has policy 6 and reads back through sched_getattr
\* with that runtime, deadline and period.
C6_DeadlineWritePath ==
    (op = "set_thread_priority_and_policy" /\ policy = DeadlinePolicy
       /\ ret.kind = "Ok") =>
        /\ priority.tag = "Deadline"
        /\ oscall.name = "sched_setattr"
        /\ oscall.id = native
        /\ ThreadsOfPid(caller, native) # {}
        /\ LET a == sched_getattr(sched, caller, native)
           IN /\ a.sched_policy = 6
              /\ a.sched_runtime = priority.runtime
              /\ a.sched_deadline = priority.deadline
              /\ a.sched_period = priority.period
        /\ \A t \in Threads \ ThreadsOfPid(caller, native) : sched[t] = before[t]

\* C6 witness: scenario D, the worker thread has set the deadline policy on
\* itself through the id 0, with a runtime below its deadline.
C6_Witness ==
    /\ op = "set_thread_priority_and_policy"
    /\ caller = "worker"
    /\ native = 0
    /\ priority = Deadline(1, 2, 2, "None")
    /\ ret.kind = "Ok"
    /\ sched["worker"] = KernelRec(6, 0, 1, 2, 2, 0)

\* The priorities that resolve to 0 under a normal policy.
ResolvesToZero(prio) ==
    \/ prio.tag \in {"Min", "Max"}
    \/ prio.tag \in ValueTags /\ prio.value = 0

\* C7: set_current_thread_priority resolves against Normal(Normal) whatever
\* policy the calling thread has: a priority that does not resolve to 0 under a
\* normal policy gives a priority error with no OS call and nothing changed,
\* every other priority passes validation and asks the OS for policy 0 with
\* priority 0 on the caller's own handle, and after Ok the calling thread has
\* policy 0 and priority 0.
C7_SetCurrentUsesNormal ==
    op = "set_current_thread_priority" =>
        /\ ~ResolvesToZero(priority) =>
              ret.kind = "Priority" /\ oscall = NoCall /\ sched = before
        /\ ResolvesToZero(priority) =>
              /\ ret.kind \in {"Ok", "OS"}
              /\ oscall.name = "pthread_setschedparam"
              /\ oscall.id = thread_native_id(caller)
              /\ oscall.policy = 0
              /\ oscall.sched_priority = 0
        /\ ret.kind = "Ok" =>
              sched[caller].policy = 0 /\ sched[caller].priority = 0

\* C7 witness: a thread under Realtime(Fifo) has set its priority to Max and
\* is now under the time-sharing policy.
C7_Witness ==
    /\ op = "set_current_thread_priority"
    /\ priority = Max
    /\ ret.kind = "Ok"
    /\ before[caller].policy = 1
    /\ sched[caller].policy = 0

\* C8 (as stated): to_posix of a Deadline priority against the deadline policy
\* returns the sentinel 0.
C8_DeadlineSentinel ==
    (op = "to_posix" /\ priority.tag = "Deadline" /\ policy = DeadlinePolicy) =>
        ret = OkInt(0)

\* C8 (amended): to_posix of a Deadline priority is a priority error under
\* every policy, the deadline policy included; the sentinel 0 is the
\* sched_priority that set_thread_priority_and_policy puts in the parameter
\* block for the deadline policy, without asking to_posix.
C8_DeadlineNeverConverts ==
    /\ (op = "to_posix" /\ priority.tag = "Deadline") =>
          ret = ErrPriority("Deadline is non-POSIX and cannot be converted.")
    /\ (op = "set_thread_priority_and_policy" /\ priority.tag = "Deadline"
          /\ policy = DeadlinePolicy) =>
          /\ ret.kind # "Priority"
          /\ params = ScheduleParams(0)

\* C8 witness: a Deadline priority has been resolved against the deadline
\* policy and refused.
C8_Witness ==
    /\ op = "to_posix"
    /\ priority.tag = "Deadline"
    /\ policy = DeadlinePolicy
    /\ ret.kind = "Priority"

\* C9: the attribute record handed to sched_setattr has size = the size of the
\* record, policy 6, the runtime, deadline and period of the Deadline
\* priority, flags = the value of the optional DeadlineFlags (0 for None), and
\* zeros elsewhere.
C9_AttrRecord ==
    oscall.name = "sched_setattr" =>
        oscall.attr = SchedAttr(SchedAttrSize, 6, FlagsAsI32(priority.flags), 0,
                                priority.runtime, priority.deadline, priority.period)

\* C10: after a thread has set its own policy to a non-deadline policy with
\* set_thread_priority_and_policy(thread_native_id(), ...), thread_schedule_policy()
\* called by that thread gives that policy (Normal(Other) as Normal(Normal)),
\* the policy thread_schedule_policy_param(thread_native_id()) gives.
C10_PolicyOfCallingThread ==
    (op = "set_thread_priority_and_policy" /\ native = thread_native_id(caller)
       /\ policy # DeadlinePolicy /\ ret.kind = "Ok") =>
        /\ thread_schedule_policy(sched, caller).ret = OkPolicy(ReadBackPolicy(policy))
        /\ thread_schedule_policy(sched, caller).ret.policy
              = thread_schedule_policy_param(sched, thread_native_id(caller)).ret.policy

\* C11: ThreadPriority::from_posix returns a Crossplatform value that lies in
\* [0, 100] and equals the sched_priority of the parameter block it decodes,
\* for every sched_priority a parameter block carries.
C11_FromPosixInRange ==
    op = "from_posix" =>
        /\ ret.kind = "Ok"
        /\ ret.priority.tag = "Crossplatform"
        /\ 0 <= ret.priority.value /\ ret.priority.value <= 100
        /\ ret.priority.value = params.sched_priority

====
